---- MODULE Spec2Model ----
(***************************************************************************)
(* Model of the grid layout engine of easypptx (src/src/easypptx/grid.py)  *)
(* and of the position resolver of its slides (src/src/easypptx/slide.py). *)
(*                                                                         *)
(* Percentages are held as two-decimal strings "dd.dd%" by the code; the   *)
(* model holds such a string as the integer number of hundredths of a      *)
(* percent it denotes ("45.00%" is 4500).  A position is either such a     *)
(* percentage string (kind "pct") or an absolute number (kind "abs", held  *)
(* in hundredths: 1.0 is 100).                                             *)
(***************************************************************************)
EXTENDS Integers, Sequences, FiniteSets, TLC

VARIABLES
    grid,   \* the Grid object's own fields (fixed at construction)
    cells,  \* Grid.cells: (row, col) -> GridCell
    last,   \* the last call made: operation, arguments, outcome
    nops,   \* number of calls made so far
    slide   \* the Slide's cached dimensions (_slide_width, _slide_height)

vars == <<grid, cells, last, nops, slide>>

----------------------------------------------------------------------------
(* Bounds of the model *)

\* number of calls made on one grid in one run
MaxOps == 2

----------------------------------------------------------------------------
(* Values *)

Pct(v) == [kind |-> "pct", v |-> v]
Abs(v) == [kind |-> "abs", v |-> v]

\* GridCell.content = None
NoContent == [kind |-> "none"]

\* an opaque object returned by a content callback
Obj(id) == [kind |-> "obj", id |-> id]

\* f"{value:.2f}" of the non-negative value n/d hundredths: the nearest
\* number of hundredths, an exact tie going to the even neighbour
Fmt2(n, d) ==
    LET q == n \div d
        r == n % d
    IN  IF 2 * r < d THEN q
        ELSE IF 2 * r > d THEN q + 1
        ELSE IF q % 2 = 0 THEN q ELSE q + 1

\* the cell positions of a rows x cols grid
Positions(rows, cols) == (0 .. rows - 1) \X (0 .. cols - 1)

\* GridCell.__init__
GridCell(row, col, x, y, width, height) ==
    [row |-> row, col |-> col, x |-> x, y |-> y, width |-> width,
     height |-> height, content |-> NoContent, span_rows |-> 1,
     span_cols |-> 1, is_spanned |-> FALSE]

CreateCells_PaddingIgnored(rows, cols, padding) ==
    [rc \in Positions(rows, cols) |->
        GridCell(rc[1], rc[2],
                 Fmt2(rc[2] * 10000, cols),
                 Fmt2(rc[1] * 10000, rows),
                 Fmt2(10000, cols),
                 Fmt2(10000, rows))]

CreateCells_WidthFromRows(rows, cols, padding) ==
    [rc \in Positions(rows, cols) |->
        GridCell(rc[1], rc[2],
                 Fmt2(rc[2] * 10000 + 50 * padding, cols),
                 Fmt2(rc[1] * 10000 + 50 * padding, rows),
                 Fmt2(100 * (100 - padding), rows),
                 Fmt2(100 * (100 - padding), rows))]

\* Grid._create_cells: padding is a whole number of percent.
\*   x      = col * (100 / cols) + (100 / cols) * (padding / 100) / 2
\*   width  = (100 / cols) * (1 - padding / 100)
\* in hundredths of a percent, as exact fractions over cols (rows)
CreateCells(rows, cols, padding) ==
    [rc \in Positions(rows, cols) |->
        GridCell(rc[1], rc[2],
                 Fmt2(rc[2] * 10000 + 50 * padding, cols),
                 Fmt2(rc[1] * 10000 + 50 * padding, rows),
                 Fmt2(100 * (100 - padding), cols),
                 Fmt2(100 * (100 - padding), rows))]

\* Grid.__init__
NewGrid(x, y, width, height, rows, cols, padding, h_align) ==
    [x |-> x, y |-> y, width |-> width, height |-> height, rows |-> rows,
     cols |-> cols, padding |-> padding, h_align |-> h_align]

----------------------------------------------------------------------------
(* Outcome of a call: the cells after it, the exception raised ("none"    *)
(* when it returns), the value returned, and the keyword arguments of     *)
(* every invocation of the content callback made during the call.         *)

Raise(cs, exc, calls) ==
    [cells |-> cs, exc |-> exc, ret |-> "nothing", calls |-> calls]

Return(cs, ret, calls) ==
    [cells |-> cs, exc |-> "none", ret |-> ret, calls |-> calls]

\* the bounds check of Grid.get_cell and Grid.merge_cells
OutOfBounds_OffByOne(g, row, col) ==
    row <= 0 \/ row >= g.rows \/ col <= 0 \/ col >= g.cols

OutOfBounds(g, row, col) ==
    row < 0 \/ row >= g.rows \/ col < 0 \/ col >= g.cols

\* Grid.get_cell
GetCell(g, cs, row, col) ==
    IF OutOfBounds(g, row, col)
    THEN Raise(cs, "OutOfBoundsError", <<>>)
    ELSE Return(cs, cs[<<row, col>>], <<>>)

\* the inclusive range of a merge
Range(sr, sc, er, ec) == (sr .. er) \X (sc .. ec)

\* Grid.merge_cells, the check of the range: a cell of it is already
\* spanned
MergeBlocked_OriginOnly(cs, sr, sc, er, ec) ==
    cs[<<sr, sc>>].is_spanned

MergeBlocked(cs, sr, sc, er, ec) ==
    \E rc \in Range(sr, sc, er, ec) : cs[rc].is_spanned

\* Grid.merge_cells, the cells after a merge that passed the checks
MergedCells_SpanOffByOne(cs, sr, sc, er, ec) ==
    LET first_cell == cs[<<sr, sc>>]
        last_cell  == cs[<<er, ec>>]
        merged == [first_cell EXCEPT
                     !.width = (last_cell.x + last_cell.width) - first_cell.x,
                     !.height = (last_cell.y + last_cell.height) - first_cell.y,
                     !.span_rows = er - sr,
                     !.span_cols = ec - sc]
    IN  [rc \in DOMAIN cs |->
           IF rc = <<sr, sc>> THEN merged
           ELSE IF rc \in Range(sr, sc, er, ec)
                THEN [cs[rc] EXCEPT !.is_spanned = TRUE]
                ELSE cs[rc]]

MergedCells_SumOfSizes(cs, sr, sc, er, ec) ==
    LET first_cell == cs[<<sr, sc>>]
        last_cell  == cs[<<er, ec>>]
        merged == [first_cell EXCEPT
                     !.width = first_cell.width + last_cell.width,
                     !.height = first_cell.height + last_cell.height,
                     !.span_rows = er - sr + 1,
                     !.span_cols = ec - sc + 1]
    IN  [rc \in DOMAIN cs |->
           IF rc = <<sr, sc>> THEN merged
           ELSE IF rc \in Range(sr, sc, er, ec)
                THEN [cs[rc] EXCEPT !.is_spanned = TRUE]
                ELSE cs[rc]]

MergedCells(cs, sr, sc, er, ec) ==
    LET first_cell == cs[<<sr, sc>>]
        last_cell  == cs[<<er, ec>>]
        new_width  == (last_cell.x + last_cell.width) - first_cell.x
        new_height == (last_cell.y + last_cell.height) - first_cell.y
        merged == [first_cell EXCEPT !.width = new_width,
                                     !.height = new_height,
                                     !.span_rows = er - sr + 1,
                                     !.span_cols = ec - sc + 1]
    IN  [rc \in DOMAIN cs |->
           IF rc = <<sr, sc>> THEN merged
           ELSE IF rc \in Range(sr, sc, er, ec)
                THEN [cs[rc] EXCEPT !.is_spanned = TRUE]
                ELSE cs[rc]]

\* Grid.merge_cells
MergeCells_MarkWhileChecking(g, cs, sr, sc, er, ec) ==
    IF OutOfBounds(g, sr, sc) \/ OutOfBounds(g, er, ec)
    THEN Raise(cs, "OutOfBoundsError", <<>>)
    ELSE IF sr > er \/ sc > ec
    THEN Raise(cs, "CellMergeError", <<>>)
    ELSE IF MergeBlocked(cs, sr, sc, er, ec)
    THEN Raise([rc \in DOMAIN cs |->
                  IF rc \in Range(sr, sc, er, ec) /\ rc # <<sr, sc>>
                  THEN [cs[rc] EXCEPT !.is_spanned = TRUE] ELSE cs[rc]],
               "CellMergeError", <<>>)
    ELSE LET cs2 == MergedCells(cs, sr, sc, er, ec)
         IN  Return(cs2, cs2[<<sr, sc>>], <<>>)

MergeCells(g, cs, sr, sc, er, ec) ==
    IF OutOfBounds(g, sr, sc) \/ OutOfBounds(g, er, ec)
    THEN Raise(cs, "OutOfBoundsError", <<>>)
    ELSE IF sr > er \/ sc > ec
    THEN Raise(cs, "CellMergeError", <<>>)
    ELSE IF MergeBlocked(cs, sr, sc, er, ec)
    THEN Raise(cs, "CellMergeError", <<>>)
    ELSE LET cs2 == MergedCells(cs, sr, sc, er, ec)
         IN  Return(cs2, cs2[<<sr, sc>>], <<>>)

\* Grid.add_to_cell, the grid's own position in millionths of a percent:
\* a percentage string as it is, an absolute number times 10 (x) or times
\* 13.333 (y)
GridXPercent(g) ==
    IF g.x.kind = "pct" THEN g.x.v * 10000 ELSE g.x.v * 100000

GridYPercent(g) ==
    IF g.y.kind = "pct" THEN g.y.v * 10000 ELSE g.y.v * 133330

\* Grid.add_to_cell, the geometry handed to the callback (two-decimal
\* percentage strings)
AbsGeometry_WidthForBoth(g, cell) ==
    [x      |-> Pct(Fmt2(GridXPercent(g) + cell.x * g.width.v, 10000)),
     y      |-> Pct(Fmt2(GridYPercent(g) + cell.y * g.width.v, 10000)),
     width  |-> Pct(Fmt2(cell.width * g.width.v, 10000)),
     height |-> Pct(Fmt2(cell.height * g.width.v, 10000))]

AbsGeometry(g, cell) ==
    [x      |-> Pct(Fmt2(GridXPercent(g) + cell.x * g.width.v, 10000)),
     y      |-> Pct(Fmt2(GridYPercent(g) + cell.y * g.height.v, 10000)),
     width  |-> Pct(Fmt2(cell.width * g.width.v, 10000)),
     height |-> Pct(Fmt2(cell.height * g.height.v, 10000))]

GeometryKeys == {"x", "y", "width", "height"}

\* Grid.add_to_cell: kwargs are the caller's keyword arguments, cb is the
\* behaviour of content_func on this invocation (it raises, or returns
\* cb.ret).  A grid whose width or height is a number has no strip method:
\* AttributeError.
AddToCell_AlwaysGridAlign(g, cs, row, col, kwargs, cb) ==
    LET got == GetCell(g, cs, row, col)
    IN  IF got.exc # "none" THEN Raise(cs, got.exc, <<>>)
        ELSE IF got.ret.is_spanned THEN Raise(cs, "CellMergeError", <<>>)
        ELSE IF g.width.kind # "pct" \/ g.height.kind # "pct"
        THEN Raise(cs, "AttributeError", <<>>)
        ELSE
            LET geo == AbsGeometry(g, got.ret)
                kw1 == [k \in (DOMAIN kwargs) \cup GeometryKeys |->
                          IF k \in GeometryKeys THEN geo[k] ELSE kwargs[k]]
                kw2 == IF g.h_align # "None"
                       THEN [k \in (DOMAIN kw1) \cup {"h_align"} |->
                               IF k = "h_align" THEN g.h_align ELSE kw1[k]]
                       ELSE kw1
            IN  IF cb.raises
                THEN Raise(cs, "CallbackError", <<kw2>>)
                ELSE Return([cs EXCEPT ![<<row, col>>].content = cb.ret],
                            cb.ret, <<kw2>>)

AddToCell(g, cs, row, col, kwargs, cb) ==
    LET got == GetCell(g, cs, row, col)
    IN  IF got.exc # "none" THEN Raise(cs, got.exc, <<>>)
        ELSE IF got.ret.is_spanned THEN Raise(cs, "CellMergeError", <<>>)
        ELSE IF g.width.kind # "pct" \/ g.height.kind # "pct"
        THEN Raise(cs, "AttributeError", <<>>)
        ELSE
            LET geo == AbsGeometry(g, got.ret)
                kw1 == [k \in (DOMAIN kwargs) \cup GeometryKeys |->
                          IF k \in GeometryKeys THEN geo[k] ELSE kwargs[k]]
                kw2 == IF "h_align" \notin DOMAIN kw1 /\ g.h_align # "None"
                       THEN [k \in (DOMAIN kw1) \cup {"h_align"} |->
                               IF k = "h_align" THEN g.h_align ELSE kw1[k]]
                       ELSE kw1
            IN  IF cb.raises
                THEN Raise(cs, "CallbackError", <<kw2>>)
                ELSE Return([cs EXCEPT ![<<row, col>>].content = cb.ret],
                            cb.ret, <<kw2>>)

\* Grid.add_grid_to_cell, the geometry of the nested grid
NestedGeometry_CellOnly(g, cell) ==
    [x |-> Pct(cell.x), y |-> Pct(cell.y), width |-> Pct(cell.width),
     height |-> Pct(cell.height)]

NestedGeometry(g, cell) ==
    LET grid_x_percent == IF g.x.kind = "pct" THEN g.x.v * 10000
                          ELSE g.x.v * 100000
        grid_y_percent == IF g.y.kind = "pct" THEN g.y.v * 10000
                          ELSE g.y.v * 133330
    IN  [x      |-> Pct(Fmt2(grid_x_percent + cell.x * g.width.v, 10000)),
         y      |-> Pct(Fmt2(grid_y_percent + cell.y * g.height.v, 10000)),
         width  |-> Pct(Fmt2(cell.width * g.width.v, 10000)),
         height |-> Pct(Fmt2(cell.height * g.height.v, 10000))]

\* a nested grid held as the content of a cell
GridContent(g, cs) == [kind |-> "grid", grid |-> g, cells |-> cs]

\* Grid.add_grid_to_cell: h_align "None" is the argument's default
AddGridToCell_NoSpanCheck(g, cs, row, col, rows, cols, padding, h_align) ==
    LET got == GetCell(g, cs, row, col)
    IN  IF got.exc # "none" THEN Raise(cs, got.exc, <<>>)
        ELSE IF g.width.kind # "pct" \/ g.height.kind # "pct"
        THEN Raise(cs, "AttributeError", <<>>)
        ELSE
            LET geo == NestedGeometry(g, got.ret)
                nested_grid ==
                    GridContent(
                        NewGrid(geo.x, geo.y, geo.width, geo.height, rows, cols,
                                padding,
                                IF h_align # "None" THEN h_align ELSE g.h_align),
                        CreateCells(rows, cols, padding))
            IN  Return([cs EXCEPT ![<<row, col>>].content = nested_grid],
                       nested_grid, <<>>)

AddGridToCell(g, cs, row, col, rows, cols, padding, h_align) ==
    LET got == GetCell(g, cs, row, col)
    IN  IF got.exc # "none" THEN Raise(cs, got.exc, <<>>)
        ELSE IF got.ret.is_spanned THEN Raise(cs, "CellMergeError", <<>>)
        ELSE IF g.width.kind # "pct" \/ g.height.kind # "pct"
        THEN Raise(cs, "AttributeError", <<>>)
        ELSE
            LET geo == NestedGeometry(g, got.ret)
                nested_grid ==
                    GridContent(
                        NewGrid(geo.x, geo.y, geo.width, geo.height, rows, cols,
                                padding,
                                IF h_align # "None" THEN h_align ELSE g.h_align),
                        CreateCells(rows, cols, padding))
            IN  Return([cs EXCEPT ![<<row, col>>].content = nested_grid],
                       nested_grid, <<>>)

----------------------------------------------------------------------------
(* The grids and the calls of the model *)

\* constructor arguments of the grids explored: defaults on a 3x3 grid, a
\* padded 2x2 grid, a grid at an absolute position, a grid with a numeric
\* width.  The code computes in binary floating point; for these grids no
\* value it formats lies half way between two hundredths, so the nearest
\* hundredth of the exact value is the string the code produces.
GridConfigs ==
    { NewGrid(Pct(0), Pct(0), Pct(10000), Pct(10000), 3, 3, 5, "center"),
      NewGrid(Pct(500), Pct(500), Pct(9000), Pct(9000), 2, 2, 10, "None"),
      NewGrid(Abs(100), Abs(100), Pct(5000), Pct(8000), 2, 3, 0, "left"),
      NewGrid(Pct(1000), Pct(2000), Abs(500), Pct(6000), 1, 2, 5, "center") }

\* row and column arguments: every index of the grid, one below, one above
Idx(n) == -1 .. n

\* arguments of merge_cells: at most one of the four indices out of bounds
MergeArgs(rows, cols) ==
    { a \in Idx(rows) \X Idx(cols) \X Idx(rows) \X Idx(cols) :
        Cardinality({ i \in 1 .. 4 :
            a[i] < 0 \/ a[i] >= (IF i \in {1, 3} THEN rows ELSE cols) }) <= 1 }

\* keyword arguments a caller gives to add_to_cell
NoKwargs == [k \in {} |-> "None"]

\* calls of add_to_cell: the caller's keyword arguments and the behaviour
\* of the content callback (it raises, or returns the object ret)
AddChoices ==
    { [kwargs |-> NoKwargs, raises |-> FALSE, ret |-> Obj("a")],
      [kwargs |-> [h_align |-> "right"], raises |-> FALSE, ret |-> Obj("b")],
      [kwargs |-> [x |-> Pct(1234), width |-> Pct(4321)], raises |-> FALSE,
       ret |-> Obj("a")],
      [kwargs |-> [h_align |-> "None"], raises |-> TRUE, ret |-> NoContent] }

\* arguments of add_grid_to_cell: rows, cols, padding, h_align
NestedChoices ==
    { <<1, 2, 5, "None">>, <<2, 1, 0, "left">> }

\* Slide._get_slide_width, _get_slide_height: the defaults, in EMU
DefaultSlide == [width |-> 9144000, height |-> 6858000]

----------------------------------------------------------------------------
(* Slide._convert_position.  Python computes in binary floating point;    *)
(* the model computes the same expressions in exact rational arithmetic,  *)
(* a number being a fraction num / den in lowest terms with den > 0.      *)

AbsInt(n) == IF n < 0 THEN -n ELSE n

RECURSIVE GCD(_, _)
GCD(a, b) == IF b = 0 THEN a ELSE GCD(b, a % b)

Frac(n, d) ==
    LET s == IF d < 0 THEN -1 ELSE 1
        g == GCD(AbsInt(n), AbsInt(d))
    IN  [num |-> (s * n) \div g, den |-> (s * d) \div g]

FAdd(a, b) == Frac(a.num * b.den + b.num * a.den, a.den * b.den)
FSub(a, b) == Frac(a.num * b.den - b.num * a.den, a.den * b.den)
FMul(a, b) == Frac(a.num * b.num, a.den * b.den)
FDiv(a, b) == Frac(a.num * b.den, a.den * b.num)
FAbs(a)    == [num |-> AbsInt(a.num), den |-> a.den]
FGreater(a, b) == a.num * b.den > b.num * a.den

\* A string argument is the sequence of its characters.
Str(text) == [kind |-> "str", text |-> text]

Digits == <<"0", "1", "2", "3", "4", "5", "6", "7", "8", "9">>

IsDigit(c) == \E i \in DOMAIN Digits : Digits[i] = c

DigitValue(c) == (CHOOSE i \in DOMAIN Digits : Digits[i] = c) - 1

\* value.endswith("%")
EndsWithPercent(t) == t # <<>> /\ t[Len(t)] = "%"

\* value.strip("%"): every leading and every trailing "%" is removed
RECURSIVE Strip(_)
Strip(t) ==
    IF t = <<>> THEN t
    ELSE IF Head(t) = "%" THEN Strip(Tail(t))
    ELSE IF t[Len(t)] = "%" THEN Strip(SubSeq(t, 1, Len(t) - 1))
    ELSE t

\* the texts float() reads, among texts of digits, ".", "%" and letters:
\* digits with at most one "." and at least one digit
IsFloatText(t) ==
    /\ \A i \in DOMAIN t : IsDigit(t[i]) \/ t[i] = "."
    /\ Cardinality({ i \in DOMAIN t : t[i] = "." }) <= 1
    /\ \E i \in DOMAIN t : IsDigit(t[i])

\* the texts int() reads, among the same texts: digits only
IsIntText(t) == t # <<>> /\ \A i \in DOMAIN t : IsDigit(t[i])

RECURSIVE IntOf(_)
IntOf(t) ==
    IF t = <<>> THEN 0
    ELSE 10 * IntOf(SubSeq(t, 1, Len(t) - 1)) + DigitValue(t[Len(t)])

RECURSIVE Pow10(_)
Pow10(k) == IF k = 0 THEN 1 ELSE 10 * Pow10(k - 1)

\* float(t) for a text float() reads
FloatOf(t) ==
    LET dot == { i \in DOMAIN t : t[i] = "." }
        decimals == IF dot = {} THEN 0
                    ELSE Len(t) - (CHOOSE i \in dot : TRUE)
    IN  Frac(IntOf(SelectSeq(t, IsDigit)), Pow10(decimals))

\* isinstance(value, str) and value.endswith("%"); a Pct value is a string
\* of the form "dd.dd%"
IsPercentage(value) ==
    value.kind = "pct" \/ (value.kind = "str" /\ EndsWithPercent(value.text))

\* float() raises ValueError on the text it is given
ParseFails(value) ==
    /\ value.kind = "str"
    /\ ~IsFloatText(IF EndsWithPercent(value.text) THEN Strip(value.text)
                    ELSE value.text)

\* float(value.strip("%")) of a percentage string, float(value) otherwise
Percent(value) ==
    IF value.kind = "str" THEN FloatOf(Strip(value.text))
    ELSE Frac(value.v, 100)

Inches(value)  ==
    IF value.kind = "str" THEN FloatOf(value.text) ELSE Frac(value.v, 100)

\* (percent / 100) * (slide_dimension / 914400)
BasePosition(value, slide_dimension) ==
    FMul(FDiv(Percent(value), Frac(100, 1)), Frac(slide_dimension, 914400))

\* position_inches * (1 + adjustment)
Adjusted_NoAdjustment(position_inches, current_ratio) == position_inches

Adjusted(position_inches, current_ratio) ==
    LET standard_ratio == Frac(16, 9)
        adjustment == FMul(FSub(FDiv(current_ratio, standard_ratio),
                                Frac(1, 1)), Frac(1, 2))
    IN  FMul(position_inches, FAdd(Frac(1, 1), adjustment))

ConvertPosition_CenterEitherAxis(sl, value, slide_dimension, is_width, h_align) ==
    IF ParseFails(value) THEN Raise(<<>>, "ValueError", <<>>)
    ELSE IF IsPercentage(value)
    THEN IF h_align = "center"
         THEN IF sl.height = 0
              THEN Return(<<>>, BasePosition(value, slide_dimension), <<>>)
              ELSE IF FGreater(FAbs(FSub(Frac(sl.width, sl.height),
                                         Frac(16, 9))), Frac(1, 100))
              THEN Return(<<>>, Adjusted(BasePosition(value, slide_dimension),
                                         Frac(sl.width, sl.height)), <<>>)
              ELSE Return(<<>>, BasePosition(value, slide_dimension), <<>>)
         ELSE Return(<<>>, BasePosition(value, slide_dimension), <<>>)
    ELSE Return(<<>>, Inches(value), <<>>)

ConvertPosition_AdjustAbsolute(sl, value, slide_dimension, is_width, h_align) ==
    LET position_inches == IF IsPercentage(value)
                           THEN BasePosition(value, slide_dimension)
                           ELSE Inches(value)
    IN  IF ParseFails(value) THEN Raise(<<>>, "ValueError", <<>>)
        ELSE IF h_align = "center" /\ is_width /\ sl.height # 0
           /\ FGreater(FAbs(FSub(Frac(sl.width, sl.height), Frac(16, 9))),
                       Frac(1, 100))
        THEN Return(<<>>, Adjusted(position_inches,
                                   Frac(sl.width, sl.height)), <<>>)
        ELSE Return(<<>>, position_inches, <<>>)

\* float() of the text is taken before the try block, so its ValueError
\* leaves the call; the division by a zero _slide_height raises
\* ZeroDivisionError inside the try block, and the bare except returns the
\* standard calculation
ConvertPosition(sl, value, slide_dimension, is_width, h_align) ==
    IF ParseFails(value) THEN Raise(<<>>, "ValueError", <<>>)
    ELSE IF IsPercentage(value)
    THEN IF h_align = "center" /\ is_width
         THEN IF sl.height = 0
              THEN Return(<<>>, BasePosition(value, slide_dimension), <<>>)
              ELSE IF FGreater(FAbs(FSub(Frac(sl.width, sl.height),
                                         Frac(16, 9))), Frac(1, 100))
              THEN Return(<<>>, Adjusted(BasePosition(value, slide_dimension),
                                         Frac(sl.width, sl.height)), <<>>)
              ELSE Return(<<>>, BasePosition(value, slide_dimension), <<>>)
         ELSE Return(<<>>, BasePosition(value, slide_dimension), <<>>)
    ELSE Return(<<>>, Inches(value), <<>>)

----------------------------------------------------------------------------
(* Grid.autogrid.  Absent optional arguments: rows and cols are 0 when    *)
(* None, title is "None" when None.  The content callbacks are numbered   *)
(* from 0 in list order; callback k returns Obj(k), and callback bad      *)
(* (when bad >= 0) raises.                                                 *)

\* int(num_items ** 0.5)
ISqrt(n) == CHOOSE k \in 0 .. n : k * k <= n /\ n < (k + 1) * (k + 1)

CeilDiv(a, b) == (a + b - 1) \div b

\* the grid dimensions
AutoDims_FloorRows(n, rows, cols) ==
    IF rows = 0 /\ cols = 0
    THEN LET c == IF ISqrt(n) > 1 THEN ISqrt(n) ELSE 1
         IN  [rows |-> n \div c, cols |-> c]
    ELSE IF rows = 0 THEN [rows |-> n \div cols, cols |-> cols]
    ELSE IF cols = 0 THEN [rows |-> rows, cols |-> n \div rows]
    ELSE [rows |-> rows, cols |-> cols]

AutoDims(n, rows, cols) ==
    IF rows = 0 /\ cols = 0
    THEN LET c == IF ISqrt(n) > 1 THEN ISqrt(n) ELSE 1
         IN  [rows |-> CeilDiv(n, c), cols |-> c]
    ELSE IF rows = 0 THEN [rows |-> CeilDiv(n, cols), cols |-> cols]
    ELSE IF cols = 0 THEN [rows |-> rows, cols |-> CeilDiv(n, rows)]
    ELSE [rows |-> rows, cols |-> cols]

\* float(str(title_height).strip("%")): "10%" and the number 10 both read
\* as 10 percent, so the hundredths of either are the hundredths of percent
TitleHeightPercent(title_height) == title_height.v

\* the local variable title_y before its first assignment
Unbound == [kind |-> "unbound"]

\* room for the title: adjusted_y, adjusted_height and title_y
TitleAdjust(a) ==
    IF a.title # "None" /\ a.y.kind = "pct"
    THEN [y       |-> Pct(a.y.v + TitleHeightPercent(a.title_height)),
          height  |-> IF a.height.kind = "pct"
                      THEN Pct(a.height.v
                               - TitleHeightPercent(a.title_height))
                      ELSE a.height,
          title_y |-> Pct(a.y.v)]
    ELSE [y |-> a.y, height |-> a.height, title_y |-> Unbound]

\* what the parent and the callbacks see of one autogrid call, in order
TitleDrawn(a, title_y) ==
    [fn |-> "add_text", text |-> a.title, x |-> a.x, y |-> title_y,
     width |-> a.width, height |-> a.title_height, h_align |-> a.h_align]

\* keyword argument k of a call, or the default: kwargs.get(k, default)
KwargsGet(kwargs, k, default) ==
    IF k \in DOMAIN kwargs THEN kwargs[k] ELSE default

\* add_image_func of figure k, called with kwargs: the parent.add_image call
AddImageFunc(k, kwargs) ==
    [fn     |-> "add_image", image |-> k,
     x      |-> KwargsGet(kwargs, "x", Str(<<"1", "0", "%">>)),
     y      |-> KwargsGet(kwargs, "y", Str(<<"1", "0", "%">>)),
     width  |-> KwargsGet(kwargs, "width", Str(<<"8", "0", "%">>)),
     height |-> KwargsGet(kwargs, "height", Str(<<"8", "0", "%">>))]

\* position_agnostic_wrapper: func() is called with no arguments; func is
\* callback k of the caller, or the add_image_func of figure k
FuncCalled(a, k) ==
    IF a.figures THEN AddImageFunc(k, NoKwargs)
    ELSE [fn |-> "content_func", k |-> k, args |-> NoKwargs]

\* col_idx += 1, and the move to the next row
NextPosition_ColumnFirst(dims, row_idx, col_idx) ==
    IF row_idx + 1 >= dims.rows THEN <<0, col_idx + 1>>
    ELSE <<row_idx + 1, col_idx>>

NextPosition(dims, row_idx, col_idx) ==
    IF col_idx + 1 >= dims.cols THEN <<row_idx + 1, 0>>
    ELSE <<row_idx, col_idx + 1>>

\* the loop over content_funcs
RECURSIVE PlaceContent(_, _, _, _, _, _, _)
PlaceContent(g, cs, a, k, row_idx, col_idx, log) ==
    IF k >= a.n THEN Return(cs, GridContent(g, cs), log)
    ELSE
        LET out  == AddToCell(g, cs, row_idx, col_idx, NoKwargs,
                              [raises |-> k = a.bad, ret |-> Obj(k)])
            log1 == IF out.calls = <<>> THEN log
                    ELSE Append(log, FuncCalled(a, k))
            next == NextPosition(g, row_idx, col_idx)
        IN  IF out.exc # "none" THEN Raise(out.cells, out.exc, log1)
            ELSE IF next[1] >= g.rows
            THEN Return(out.cells, GridContent(g, out.cells), log1)
            ELSE PlaceContent(g, out.cells, a, k + 1, next[1], next[2], log1)

\* Grid.autogrid: the grid it constructs and the outcome of the call
Autogrid(a) ==
    IF a.n = 0
    THEN LET g  == NewGrid(a.x, a.y, a.width, a.height, 1, 1, 5, "center")
             cs == CreateCells(1, 1, 5)
         IN  [grid |-> g, out |-> Return(cs, GridContent(g, cs), <<>>)]
    ELSE
        LET dims == AutoDims(a.n, a.rows, a.cols)
            adj  == TitleAdjust(a)
            g    == NewGrid(a.x, adj.y, a.width, adj.height, dims.rows,
                            dims.cols, a.padding, a.h_align)
            cs   == CreateCells(dims.rows, dims.cols, a.padding)
        IN  [grid |-> g,
             out  |-> IF a.title = "None"
                      THEN PlaceContent(g, cs, a, 0, 0, 0, <<>>)
                      ELSE IF adj.title_y = Unbound
                      THEN Raise(cs, "UnboundLocalError", <<>>)
                      ELSE PlaceContent(g, cs, a, 0, 0, 0,
                                        <<TitleDrawn(a, adj.title_y)>>)]

----------------------------------------------------------------------------
(* Slide.add_multiple_objects.  objects_data is the sequence of the       *)
(* entries' 'type' values; the k-th shape the slide creates is Obj(k).    *)

\* math.ceil(math.sqrt(num_objects))
CeilSqrt(n) ==
    CHOOSE k \in 0 .. n : k * k >= n /\ (k = 0 \/ (k - 1) * (k - 1) < n)

\* the number of rows and columns of the layout
LayoutDims(num_objects, layout) ==
    IF layout = "horizontal" THEN [rows |-> 1, cols |-> num_objects]
    ELSE IF layout = "vertical" THEN [rows |-> num_objects, cols |-> 1]
    ELSE [rows |-> IF CeilSqrt(num_objects) = 0 THEN 0
                   ELSE CeilDiv(num_objects, CeilSqrt(num_objects)),
          cols |-> CeilSqrt(num_objects)]

\* the types for which a branch of the loop creates a shape
ObjectTypes == {"text", "image", "shape"}

\* the rectangle of entry i (from 0): obj_x, obj_y, obj_width, obj_height
ObjectGeometry(box, dims, padding, i) ==
    LET cell_width  == FDiv(box.width, Frac(dims.cols, 1))
        cell_height == FDiv(box.height, Frac(dims.rows, 1))
        col == i % dims.cols
        row == i \div dims.cols
    IN  [x |-> FAdd(FAdd(box.x, FMul(Frac(col, 1), cell_width)),
                    FDiv(FMul(cell_width, padding), Frac(2, 1))),
         y |-> FAdd(FAdd(box.y, FMul(Frac(row, 1), cell_height)),
                    FDiv(FMul(cell_height, padding), Frac(2, 1))),
         width  |-> FMul(cell_width, FSub(Frac(1, 1), padding)),
         height |-> FMul(cell_height, FSub(Frac(1, 1), padding))]

\* the call of add_text, add_image or add_shape that creates shape id
ShapeAdded(type, id, geo) ==
    [fn |-> "add_" \o type, shape |-> id, x |-> geo.x, y |-> geo.y,
     width |-> geo.width, height |-> geo.height]

\* the loop over objects_data from entry i on; obj is the local variable
\* obj, which keeps its value when no branch assigns it
RECURSIVE AddObjects(_, _, _, _, _, _, _, _)
AddObjects(types, box, dims, padding, i, obj, created, log) ==
    IF i >= Len(types) THEN Return(<<>>, created, log)
    ELSE IF types[i + 1] \in ObjectTypes
    THEN LET new == Obj(Len(log) + 1)
             geo == ObjectGeometry(box, dims, padding, i)
         IN  AddObjects(types, box, dims, padding, i + 1, new,
                        Append(created, new),
                        Append(log, ShapeAdded(types[i + 1], new.id, geo)))
    ELSE IF obj = Unbound THEN Raise(<<>>, "UnboundLocalError", log)
    ELSE AddObjects(types, box, dims, padding, i + 1, obj,
                    Append(created, obj), log)

\* Slide.add_multiple_objects; c holds start_x, start_y, width and height
AddMultipleObjects(sl, types, layout, padding_percent, c) ==
    LET box  == [x |-> ConvertPosition(sl, c.start_x, sl.width, TRUE,
                                       "None").ret,
                 y |-> ConvertPosition(sl, c.start_y, sl.height, TRUE,
                                       "None").ret,
                 width  |-> ConvertPosition(sl, c.width, sl.width, TRUE,
                                            "None").ret,
                 height |-> ConvertPosition(sl, c.height, sl.height, TRUE,
                                            "None").ret]
        dims == LayoutDims(Len(types), layout)
    IN  IF dims.cols = 0 \/ dims.rows = 0
        THEN Raise(<<>>, "ZeroDivisionError", <<>>)
        ELSE AddObjects(types, box, dims, Frac(padding_percent, 100), 0,
                        Unbound, <<>>, <<>>)

----------------------------------------------------------------------------
(* Slide.add_image and Slide.add_shape.                                    *)

\* an optional argument left at None
NotGiven == [kind |-> "none"]

RECURSIVE DigitsOf(_)
DigitsOf(n) ==
    IF n < 10 THEN <<Digits[n + 1]>>
    ELSE Append(DigitsOf(n \div 10), Digits[(n % 10) + 1])

\* f"{percent:.2f}%" for v hundredths of a percent, v >= 0: the text of the
\* strings a Grid makes
FormatPercent(v) ==
    DigitsOf(v \div 100)
        \o <<".", Digits[((v % 100) \div 10) + 1], Digits[(v % 10) + 1],
            "%">>

\* the characters of a string value
TextOf(value) ==
    IF value.kind = "pct" THEN FormatPercent(value.v) ELSE value.text

\* isinstance(value, str) and "%" in value
HasPercent(value) ==
    \/ value.kind = "pct"
    \/ value.kind = "str" /\ \E i \in DOMAIN value.text : value.text[i] = "%"

\* the h_align used: "center" by default for a percentage above threshold,
\*   if h_align is None and isinstance(v, str) and "%" in v
\*           and int(v.strip("%")) > threshold
InferHAlign(value, h_align, threshold) ==
    IF h_align = "None" /\ HasPercent(value)
    THEN IF ~IsIntText(Strip(TextOf(value)))
         THEN [exc |-> "ValueError", h_align |-> h_align]
         ELSE IF IntOf(Strip(TextOf(value))) > threshold
         THEN [exc |-> "none", h_align |-> "center"]
         ELSE [exc |-> "none", h_align |-> h_align]
    ELSE [exc |-> "none", h_align |-> h_align]

\* the four conversions of the rectangle; width and height may be None
ConvertRectangle(sl, r, h_align) ==
    [x |-> ConvertPosition(sl, r.x, sl.width, TRUE, h_align),
     y |-> ConvertPosition(sl, r.y, sl.height, FALSE, "None"),
     width  |-> IF r.width = NotGiven THEN Return(<<>>, NotGiven, <<>>)
                ELSE ConvertPosition(sl, r.width, sl.width, TRUE, "None"),
     height |-> IF r.height = NotGiven THEN Return(<<>>, NotGiven, <<>>)
                ELSE ConvertPosition(sl, r.height, sl.height, FALSE, "None")]

\* the shape created by fn at the converted rectangle, or the first error
CreateShape(fn, inferred, conv) ==
    IF inferred.exc # "none" THEN Raise(<<>>, inferred.exc, <<>>)
    ELSE IF \E k \in DOMAIN conv : conv[k].exc # "none"
    THEN Raise(<<>>, "ValueError", <<>>)
    ELSE Return(<<>>, Obj(1),
                <<[fn |-> fn, shape |-> 1, h_align |-> inferred.h_align,
                   x |-> conv.x.ret, y |-> conv.y.ret,
                   width |-> conv.width.ret, height |-> conv.height.ret]>>)

\* Slide.add_image, for an image file that exists
AddImage(sl, r, h_align) ==
    LET inferred == InferHAlign(r.x, h_align, 20)
    IN  CreateShape("add_picture", inferred,
                    ConvertRectangle(sl, r, inferred.h_align))

\* Slide.add_shape
AddShape(sl, r, h_align) ==
    LET inferred == InferHAlign(r.width, h_align, 50)
    IN  CreateShape("add_shape", inferred,
                    ConvertRectangle(sl, r, inferred.h_align))

----------------------------------------------------------------------------
(* Table.add and Table.from_dataframe.  A DataFrame of nrows rows and     *)
(* ncols columns has the column labels Label(j), the index values         *)
(* Index(i) and the values Value(i, j); data is a sequence of rows.       *)

ColumnLabel(j) == <<"column", j>>
IndexValue(i)  == <<"index", i>>
FrameValue(i, j) == <<"value", i, j>>

\* list(df.columns)
Columns(df) == [j \in 1 .. df.ncols |-> ColumnLabel(j)]

\* list(row) of the i-th row of df.iterrows(), and df.values.tolist()[i]
RowValues(df, i) == [j \in 1 .. df.ncols |-> FrameValue(i, j)]

\* cell.text = str(cell_data)
CellText(cell_data) == [str |-> cell_data]

\* Table.add: the table created, as the texts of its cells row by row
TableAdd(data) ==
    IF data = <<>> THEN Raise(<<>>, "ValueError", <<>>)
    ELSE IF \E i \in DOMAIN data : Len(data[i]) # Len(data[1])
    THEN Raise(<<>>, "ValueError", <<>>)
    ELSE Return(<<>>,
                [i \in DOMAIN data |->
                    [j \in DOMAIN data[i] |-> CellText(data[i][j])]],
                <<[fn |-> "add_table", rows |-> Len(data),
                   cols |-> Len(data[1])]>>)

\* Table.from_dataframe
FromDataframe(df, include_index) ==
    TableAdd(<<Columns(df)>> \o
             [i \in 1 .. df.nrows |->
                 IF include_index
                 THEN <<IndexValue(i)>> \o RowValues(df, i)
                 ELSE RowValues(df, i)])

----------------------------------------------------------------------------
(* The state machine.  A run is a script that builds one grid and calls   *)
(* its methods; it ends at the first call that raises, or after MaxOps    *)
(* calls.                                                                 *)

Init ==
    /\ grid \in GridConfigs
    /\ cells = CreateCells(grid.rows, grid.cols, grid.padding)
    /\ last = [op |-> "init", args |-> <<>>, kwargs |-> NoKwargs,
               exc |-> "none", ret |-> "nothing", calls |-> <<>>]
    /\ nops = 0
    /\ slide = DefaultSlide

Running == last.exc = "none" /\ nops < MaxOps

Apply(op, args, kwargs, out) ==
    /\ cells' = out.cells
    /\ last' = [op |-> op, args |-> args, kwargs |-> kwargs, exc |-> out.exc,
                ret |-> out.ret, calls |-> out.calls]
    /\ nops' = nops + 1
    /\ UNCHANGED <<grid, slide>>

DoGetCell ==
    /\ Running
    /\ \E row \in Idx(grid.rows), col \in Idx(grid.cols) :
        Apply("get_cell", <<row, col>>, NoKwargs,
              GetCell(grid, cells, row, col))

DoMergeCells ==
    /\ Running
    /\ \E a \in MergeArgs(grid.rows, grid.cols) :
        Apply("merge_cells", a, NoKwargs,
              MergeCells(grid, cells, a[1], a[2], a[3], a[4]))

DoAddToCell ==
    /\ Running
    /\ \E row \in Idx(grid.rows), col \in Idx(grid.cols), c \in AddChoices :
        Apply("add_to_cell", <<row, col>>, c.kwargs,
              AddToCell(grid, cells, row, col, c.kwargs, c))

DoAddGridToCell ==
    /\ Running
    /\ \E row \in Idx(grid.rows), col \in Idx(grid.cols), n \in NestedChoices :
        Apply("add_grid_to_cell", <<row, col>> \o n, NoKwargs,
              AddGridToCell(grid, cells, row, col, n[1], n[2], n[3], n[4]))

Next ==
    \/ DoGetCell
    \/ DoMergeCells
    \/ DoAddToCell
    \/ DoAddGridToCell

Spec == Init /\ [][Next]_vars

----------------------------------------------------------------------------
(* Grid.autogrid is a class method: a run starts without a grid and makes *)
(* one call, which constructs the grid and fills it.                      *)

MaxItems == 5

\* no Grid object exists yet
NoGrid == [kind |-> "none"]

\* arguments of autogrid: n callbacks of which callback bad raises (none
\* when bad = -1), rows and cols (0 when None), the rectangle, the title
AutogridArgs ==
    [n : 0 .. MaxItems, bad : {-1, 1}, rows : 0 .. 3, cols : 0 .. 3,
     x : {Pct(500)}, y : {Pct(500), Abs(100)},
     width : {Pct(9000)}, height : {Pct(9000), Abs(500)},
     padding : {5}, h_align : {"center", "left"},
     title : {"None", "Title"},
     title_height : {Pct(1000), Pct(2000), Abs(1500)},
     figures : {FALSE}]

InitAuto ==
    /\ grid = NoGrid
    /\ cells = <<>>
    /\ last = [op |-> "init", args |-> <<>>, kwargs |-> NoKwargs,
               exc |-> "none", ret |-> "nothing", calls |-> <<>>]
    /\ nops = 0
    /\ slide = DefaultSlide

DoAutogrid ==
    /\ last.op = "init"
    /\ \E a \in AutogridArgs :
        LET made == Autogrid(a)
        IN  /\ grid' = made.grid
            /\ cells' = made.out.cells
            /\ last' = [op |-> "autogrid", args |-> a, kwargs |-> NoKwargs,
                        exc |-> made.out.exc, ret |-> made.out.ret,
                        calls |-> made.out.calls]
            /\ nops' = nops + 1
            /\ UNCHANGED slide

\* Grid.autogrid_pyplot with n figures: autogrid with the add_image_func
\* of every figure as content callbacks; saving a figure does not fail
AutogridPyplot(a) == Autogrid([a EXCEPT !.figures = TRUE])

DoAutogridPyplot ==
    /\ last.op = "init"
    /\ \E a \in AutogridArgs :
        /\ a.bad = -1
        /\ LET made == AutogridPyplot(a)
           IN  /\ grid' = made.grid
               /\ cells' = made.out.cells
               /\ last' = [op |-> "autogrid_pyplot", args |-> a,
                           kwargs |-> NoKwargs, exc |-> made.out.exc,
                           ret |-> made.out.ret, calls |-> made.out.calls]
               /\ nops' = nops + 1
               /\ UNCHANGED slide

NextAuto ==
    \/ DoAutogrid
    \/ DoAutogridPyplot

SpecAuto == InitAuto /\ [][NextAuto]_vars

----------------------------------------------------------------------------
(* Slide._convert_position on a slide of any cached size: a run starts    *)
(* with the Slide constructed and makes one conversion.                   *)

\* (_slide_width, _slide_height) in EMU: 4:3, 16:9, 107:60 (within 0.01 of
\* 16:9), 161:90 (just beyond 0.01), and zero and negative heights
SlideSizes ==
    [width : {9144000, 12192000, 12230100, 12268200},
     height : {6858000, 0, -6858000}]

MaxLen == 3

\* the characters of string arguments: two digits, the decimal point, the
\* percent sign and a letter
Alphabet == {"0", "5", ".", "%", "x"}

Texts == UNION { [1 .. k -> Alphabet] : k \in 0 .. MaxLen }

\* arguments: value, slide_dimension, is_width, h_align
ConvertArgs ==
    ({Pct(0), Pct(1000), Pct(5000), Pct(10000), Abs(250), Abs(0), Abs(-100)}
        \X {9144000, 6858000, 12192000, 0, -914400}
        \X BOOLEAN
        \X {"None", "left", "right", "center"})
    \cup
    ({ Str(t) : t \in Texts }
        \X {9144000}
        \X BOOLEAN
        \X {"None", "left", "right", "center"})

InitConvert ==
    /\ slide \in SlideSizes
    /\ grid = NoGrid
    /\ cells = <<>>
    /\ last = [op |-> "init", args |-> <<>>, kwargs |-> NoKwargs,
               exc |-> "none", ret |-> "nothing", calls |-> <<>>]
    /\ nops = 0

DoConvertPosition ==
    /\ last.op = "init"
    /\ \E a \in ConvertArgs :
        LET out == ConvertPosition(slide, a[1], a[2], a[3], a[4])
        IN  /\ last' = [op |-> "_convert_position", args |-> a,
                        kwargs |-> NoKwargs, exc |-> out.exc,
                        ret |-> out.ret, calls |-> out.calls]
            /\ nops' = nops + 1
            /\ UNCHANGED <<grid, cells, slide>>

NextConvert == DoConvertPosition

SpecConvert == InitConvert /\ [][NextConvert]_vars

----------------------------------------------------------------------------
(* Grid(...): a run starts without a grid and constructs one.             *)

MaxDim == 6

\* rows, cols and padding of the constructed grid
NewGridArgs == (1 .. MaxDim) \X (1 .. MaxDim) \X {0, 5, 10, 20}

DoNewGrid ==
    /\ last.op = "init"
    /\ \E a \in NewGridArgs :
        /\ grid' = NewGrid(Pct(500), Pct(500), Pct(9000), Pct(9000),
                           a[1], a[2], a[3], "center")
        /\ cells' = CreateCells(a[1], a[2], a[3])
        /\ last' = [op |-> "Grid", args |-> a, kwargs |-> NoKwargs,
                    exc |-> "none", ret |-> "nothing", calls |-> <<>>]
        /\ nops' = nops + 1
        /\ UNCHANGED slide

NextNew == DoNewGrid

SpecNew == InitAuto /\ [][NextNew]_vars

----------------------------------------------------------------------------
(* Operations that draw on a Slide: a run starts with the Slide           *)
(* constructed on a 4:3 or a 16:9 presentation and makes one call.        *)

MaxObjects == 3

\* the 'type' values of objects_data: the three documented ones and one
\* that no branch handles
TypeLists ==
    UNION { [1 .. k -> ObjectTypes \cup {"chart"}] : k \in 0 .. MaxObjects }

Layouts == {"grid", "horizontal", "vertical"}

InitSlide ==
    /\ slide \in { sl \in SlideSizes : sl.height > 0 /\ sl.width <= 12192000 }
    /\ grid = NoGrid
    /\ cells = <<>>
    /\ last = [op |-> "init", args |-> <<>>, kwargs |-> NoKwargs,
               exc |-> "none", ret |-> "nothing", calls |-> <<>>]
    /\ nops = 0

\* one call on the slide, with its outcome
Draw(op, args, out) ==
    /\ last' = [op |-> op, args |-> args, kwargs |-> NoKwargs,
                exc |-> out.exc, ret |-> out.ret, calls |-> out.calls]
    /\ nops' = nops + 1
    /\ UNCHANGED <<grid, cells, slide>>

\* add_multiple_objects with the default container and padding
DoAddMultipleObjects ==
    /\ last.op = "init"
    /\ \E types \in TypeLists, layout \in Layouts :
        Draw("add_multiple_objects", <<types, layout>>,
             AddMultipleObjects(slide, types, layout, 5,
                                [start_x |-> Pct(500), start_y |-> Pct(500),
                                 width |-> Pct(9000), height |-> Pct(9000)]))

MaxFrame == 3

\* the DataFrames: at least one column, any number of rows
Frames == [nrows : 0 .. MaxFrame, ncols : 1 .. MaxFrame]

\* Table(slide).from_dataframe with the default position and size
DoFromDataframe ==
    /\ last.op = "init"
    /\ \E df \in Frames, include_index \in BOOLEAN :
        Draw("from_dataframe", <<df, include_index>>,
             FromDataframe(df, include_index))

\* the rectangle add_to_cell passes for cell (0,0) of a 2x2 grid
CellRectangle ==
    AbsGeometry(NewGrid(Pct(500), Pct(500), Pct(9000), Pct(9000), 2, 2, 10,
                        "None"),
                CreateCells(2, 2, 10)[<<0, 0>>])

\* the values of the argument under test: every text, numbers, and
\* two-decimal percentage strings
TestValues ==
    { Str(t) : t \in Texts } \cup {Abs(100), Pct(250), Pct(4500), Pct(6000)}

\* add_image with position x (size left to the image), and with the
\* rectangle of a grid cell
DoAddImage ==
    /\ last.op = "init"
    /\ \E h_align \in {"None", "left", "center"} :
        \E r \in { [x |-> v, y |-> Abs(100), width |-> NotGiven,
                    height |-> NotGiven] : v \in TestValues }
                 \cup {CellRectangle} :
            Draw("add_image", <<r, h_align>>, AddImage(slide, r, h_align))

\* add_shape with width w, and with the rectangle of a grid cell
DoAddShape ==
    /\ last.op = "init"
    /\ \E h_align \in {"None", "left", "center"} :
        \E r \in { [x |-> Abs(100), y |-> Abs(100), width |-> v,
                    height |-> Abs(100)] : v \in TestValues }
                 \cup {CellRectangle} :
            Draw("add_shape", <<r, h_align>>, AddShape(slide, r, h_align))

NextSlide ==
    \/ DoAddMultipleObjects
    \/ DoFromDataframe
    \/ DoAddImage
    \/ DoAddShape

SpecSlide == InitSlide /\ [][NextSlide]_vars

----------------------------------------------------------------------------
(* Properties *)

\* the rectangle of a cell, in hundredths of a percent of the grid
Left(c)   == c.x
Right(c)  == c.x + c.width
Top(c)    == c.y
Bottom(c) == c.y + c.height

Overlap(c, d) ==
    /\ Left(c) < Right(d) /\ Left(d) < Right(c)
    /\ Top(c) < Bottom(d) /\ Top(d) < Bottom(c)

Inside(c) ==
    /\ 0 <= Left(c) /\ Right(c) <= 10000
    /\ 0 <= Top(c) /\ Bottom(c) <= 10000

Visible == { rc \in DOMAIN cells : ~cells[rc].is_spanned }

Call(op) == last.op = op
Returned == last.exc = "none"

\* C1: after any sequence of successful merge_cells calls, the rectangles of
\* two distinct non-spanned cells do not overlap and every such rectangle
\* stays inside 0%..100% of the grid on both axes.
C1_RectanglesDisjointAndInside ==
    \A a \in Visible :
        /\ Inside(cells[a])
        /\ \A b \in Visible \ {a} : ~Overlap(cells[a], cells[b])

\* C2: in every reachable state no cell with is_spanned = true holds
\* content.
C2_SpannedCellsHoldNoContent ==
    \A rc \in DOMAIN cells :
        cells[rc].is_spanned => cells[rc].content = NoContent

\* C3: in a 3x3 grid, once merge_cells(0,0,1,1) has succeeded, a
\* merge_cells(0,0,0,0) that follows it fails with CellMergeError.
C3_RemergeOfOriginFails ==
    [][ ( /\ grid.rows = 3 /\ grid.cols = 3
          /\ Call("merge_cells") /\ Returned /\ last.args = <<0, 0, 1, 1>>
          /\ last'.op = "merge_cells" /\ last'.args = <<0, 0, 0, 0>> )
        => last'.exc = "CellMergeError" ]_vars

InGrid(a) ==
    /\ a[1] \in 0 .. grid.rows - 1 /\ a[3] \in 0 .. grid.rows - 1
    /\ a[2] \in 0 .. grid.cols - 1 /\ a[4] \in 0 .. grid.cols - 1

Inverted(a) == a[1] > a[3] \/ a[2] > a[4]

C5_BoundsChecks ==
    /\ Call("get_cell") =>
         LET inside == /\ 0 <= last.args[1] /\ last.args[1] < grid.rows
                       /\ 0 <= last.args[2] /\ last.args[2] < grid.cols
         IN  IF inside
             THEN /\ Returned
                  /\ last.ret = cells[<<last.args[1], last.args[2]>>]
                  /\ last.ret.row = last.args[1]
                  /\ last.ret.col = last.args[2]
             ELSE last.exc = "OutOfBoundsError"
    /\ (Call("merge_cells") /\ ~InGrid(last.args)) =>
         last.exc = "OutOfBoundsError"

C5_Witness ==
    /\ Call("merge_cells") /\ ~InGrid(last.args) /\ Inverted(last.args)
    /\ last.exc = "OutOfBoundsError"
    /\ \E rc \in DOMAIN cells : cells[rc].is_spanned

\* C6: after a successful merge_cells(sr, sc, er, ec) the returned cell is
\* cell (sr, sc), it is not spanned, its span is the size of the range, and
\* every other cell of the range is spanned.
C6_MergeResult ==
    (Call("merge_cells") /\ Returned) =>
        LET a == last.args
            origin == cells[<<a[1], a[2]>>]
        IN  /\ last.ret = origin
            /\ origin.row = a[1] /\ origin.col = a[2]
            /\ ~origin.is_spanned
            /\ origin.span_rows = a[3] - a[1] + 1
            /\ origin.span_cols = a[4] - a[2] + 1
            /\ \A r \in a[1] .. a[3], c \in a[2] .. a[4] :
                   <<r, c>> # <<a[1], a[2]>> => cells[<<r, c>>].is_spanned

C6_Witness ==
    /\ Call("merge_cells") /\ Returned
    /\ last.args[3] > last.args[1] /\ last.args[4] > last.args[2]

\* C7: after a successful merge_cells(sr, sc, er, ec) the origin's width is
\* (x + width of cell (er, ec)) - x of cell (sr, sc) and its height is
\* (y + height of cell (er, ec)) - y of cell (sr, sc), with the values held
\* before the call; the origin's x and y are unchanged.
C7_MergedSize ==
    [][ (last'.op = "merge_cells" /\ last'.exc = "none") =>
          LET a == last'.args
              o == <<a[1], a[2]>>
              e == <<a[3], a[4]>>
          IN  /\ cells'[o].width = (cells[e].x + cells[e].width) - cells[o].x
              /\ cells'[o].height = (cells[e].y + cells[e].height) - cells[o].y
              /\ cells'[o].x = cells[o].x
              /\ cells'[o].y = cells[o].y ]_vars

\* a merge whose end cell is itself the origin of an earlier merge
C7_Witness ==
    /\ Call("merge_cells") /\ Returned /\ grid.padding > 0
    /\ last.args[4] > last.args[2]
    /\ LET origin == cells[<<last.args[1], last.args[2]>>]
       IN  origin.width > origin.span_cols * (10000 \div grid.cols)

\* C8: whenever get_cell, merge_cells, add_to_cell or add_grid_to_cell
\* raises, for any reason (the content callback raising included), every
\* cell of the grid is as it was before the call.
C8_FailedCallChangesNothing ==
    [][ last'.exc # "none" => (cells' = cells /\ grid' = grid) ]_vars

C8_Witness ==
    /\ Call("add_to_cell") /\ last.exc = "CallbackError"
    /\ Len(last.calls) = 1
    /\ \E rc \in DOMAIN cells : cells[rc].is_spanned

\* C9: add_to_cell and add_grid_to_cell fail with OutOfBoundsError on a
\* position outside the grid and with CellMergeError on a cell that is
\* spanned; in both cases the callback is not invoked, nothing is returned
\* and no cell receives a nested grid.
C9_AddRejected ==
    [][ last'.op \in {"add_to_cell", "add_grid_to_cell"} =>
          LET row == last'.args[1]
              col == last'.args[2]
              outside == row < 0 \/ row >= grid.rows
                         \/ col < 0 \/ col >= grid.cols
          IN  /\ outside =>
                   /\ last'.exc = "OutOfBoundsError"
                   /\ last'.calls = <<>> /\ cells' = cells
              /\ (~outside /\ cells[<<row, col>>].is_spanned) =>
                   /\ last'.exc = "CellMergeError"
                   /\ last'.calls = <<>> /\ cells' = cells ]_vars

C9_Witness ==
    /\ Call("add_grid_to_cell") /\ last.exc = "CellMergeError"
    /\ cells[<<last.args[1], last.args[2]>>].is_spanned

\* v hundredths is a two-decimal rendering of the exact value m millionths
Nearest(v, m) == 2 * (10000 * v - m) <= 10000 /\ 2 * (m - 10000 * v) <= 10000

\* C10: add_to_cell passes to the callback x = Gx + cell.x * Gw / 100,
\* y = Gy + cell.y * Gh / 100, width = cell.width * Gw / 100 and
\* height = cell.height * Gh / 100 as two-decimal percentage strings, in
\* place of any x, y, width, height of the caller; Gx and Gy are the grid's
\* percentages or, for an absolute number, x * 10 and y * 13.333.
C10_GeometryPassed ==
    (Call("add_to_cell") /\ last.calls # <<>>) =>
        LET kw == last.calls[1]
            cell == cells[<<last.args[1], last.args[2]>>]
            Gx == IF grid.x.kind = "pct" THEN 10000 * grid.x.v
                  ELSE 10 * 10000 * grid.x.v
            Gy == IF grid.y.kind = "pct" THEN 10000 * grid.y.v
                  ELSE 13333 * 10 * grid.y.v
            Gw == grid.width.v
            Gh == grid.height.v
        IN  /\ \A k \in GeometryKeys : kw[k].kind = "pct"
            /\ Nearest(kw.x.v, Gx + cell.x * Gw)
            /\ Nearest(kw.y.v, Gy + cell.y * Gh)
            /\ Nearest(kw.width.v, cell.width * Gw)
            /\ Nearest(kw.height.v, cell.height * Gh)

\* the caller gave its own x and width, the grid lies at an absolute y
C10_Witness ==
    /\ Call("add_to_cell") /\ last.calls # <<>>
    /\ "x" \in DOMAIN last.kwargs
    /\ last.calls[1].x # last.kwargs.x
    /\ last.calls[1].width # last.kwargs.width
    /\ grid.y.kind = "abs"
    /\ cells[<<last.args[1], last.args[2]>>].span_cols > 1

\* the behaviour of the content callback in the add_to_cell call made with
\* the keyword arguments kwargs
CallbackGiven(kwargs) == CHOOSE c \in AddChoices : c.kwargs = kwargs

\* the h_align a callback receives: the keyword when it is passed, and
\* None (the default of every drawing method of Slide) when it is not
HAlignSeen(kw) == IF "h_align" \in DOMAIN kw THEN kw.h_align ELSE "None"

\* C11: a successful add_to_cell invokes the callback exactly once, with
\* the caller's h_align when the caller gave one and the grid's default
\* h_align otherwise, stores the value the callback returned as the cell's
\* content in place of any earlier content, and returns that value.
C11_AddToCellResult ==
    (Call("add_to_cell") /\ Returned) =>
        LET given == CallbackGiven(last.kwargs)
        IN  /\ Len(last.calls) = 1
            /\ HAlignSeen(last.calls[1]) =
                 IF "h_align" \in DOMAIN last.kwargs THEN last.kwargs.h_align
                 ELSE grid.h_align
            /\ ~given.raises
            /\ last.ret = given.ret
            /\ cells[<<last.args[1], last.args[2]>>].content = given.ret

\* the second of two add_to_cell calls on one cell of a grid with a default
\* h_align, the caller giving its own h_align
C11_Witness ==
    /\ Call("add_to_cell") /\ Returned /\ nops = 2
    /\ last.kwargs = [h_align |-> "right"] /\ grid.h_align = "center"
    /\ last.calls[1].h_align = "right"
    /\ cells[<<last.args[1], last.args[2]>>].content = Obj("b")
    /\ \A rc \in DOMAIN cells :
         rc # <<last.args[1], last.args[2]>> => cells[rc].content = NoContent

\* C12: add_grid_to_cell stores and returns a new grid whose x, y, width and
\* height are what add_to_cell would pass for that cell at that moment and
\* whose h_align is the given one or, when none is given, the parent's; a
\* later merge_cells or add_to_cell on the parent leaves a nested grid's
\* geometry and cells as they are.
C12_NestedGridFixedAtCreation ==
    [][ /\ (last'.op = "add_grid_to_cell" /\ last'.exc = "none") =>
             LET rc == <<last'.args[1], last'.args[2]>>
                 nested == last'.ret
                 geo == AbsGeometry(grid, cells[rc])
             IN  /\ nested.kind = "grid"
                 /\ cells'[rc].content = nested
                 /\ nested.grid.x = geo.x /\ nested.grid.y = geo.y
                 /\ nested.grid.width = geo.width
                 /\ nested.grid.height = geo.height
                 /\ nested.grid.rows = last'.args[3]
                 /\ nested.grid.cols = last'.args[4]
                 /\ nested.grid.h_align =
                      IF last'.args[6] # "None" THEN last'.args[6]
                      ELSE grid.h_align
                 /\ nested.cells =
                      CreateCells(last'.args[3], last'.args[4], last'.args[5])
        /\ last'.op \in {"merge_cells", "add_to_cell"} =>
             \A rc \in DOMAIN cells :
                 ( /\ cells[rc].content.kind = "grid"
                   /\ ~( /\ last'.op = "add_to_cell" /\ last'.exc = "none"
                         /\ rc = <<last'.args[1], last'.args[2]>> ) )
                 => cells'[rc].content = cells[rc].content ]_vars

\* a nested grid in a cell that was merged with its neighbour afterwards:
\* the nested grid keeps the width the cell had when it was created
C12_Witness ==
    /\ Call("merge_cells") /\ Returned
    /\ LET o == <<last.args[1], last.args[2]>>
       IN  /\ cells[o].content.kind = "grid"
           /\ cells[o].span_cols > 1
           /\ cells[o].content.grid.width # AbsGeometry(grid, cells[o]).width

----------------------------------------------------------------------------
(* Properties of Grid.autogrid, stated for SpecAuto.                      *)

\* the arguments of the autogrid call just made
Auto == last.args

\* the invocations of content callbacks during the call, in order
FuncCalls == SelectSeq(last.calls, LAMBDA e : e.fn = "content_func")

\* the title texts drawn on the parent during the call
TitleCalls == SelectSeq(last.calls, LAMBDA e : e.fn = "add_text")

\* C13: autogrid with an empty callback list returns, without error and
\* without invoking anything, a grid whose rows and cols are the rows and
\* cols the caller gave (1 for one not given).
C13_EmptyListKeepsDims ==
    (Call("autogrid") /\ Auto.n = 0) =>
        /\ Returned
        /\ last.calls = <<>>
        /\ grid.rows = (IF Auto.rows = 0 THEN 1 ELSE Auto.rows)
        /\ grid.cols = (IF Auto.cols = 0 THEN 1 ELSE Auto.cols)

\* r is ceil(n / d)
IsCeil(r, n, d) == r * d >= n /\ (r - 1) * d < n

\* C14: for n >= 1 callbacks the grid has cols = max(1, floor(sqrt(n)))
\* and rows = ceil(n / cols) when neither was given, and the missing one
\* is ceil(n / other) when one was given; then rows * cols >= n, and
\* rows >= cols when neither was given; n = 5 gives 2 columns and 3 rows
\* with cell (2,1) left empty.
C14_AutoDimensions ==
    (Call("autogrid") /\ Auto.n >= 1) =>
        /\ (Auto.rows = 0 /\ Auto.cols = 0) =>
            /\ grid.cols >= 1
            /\ grid.cols * grid.cols <= Auto.n
            /\ (grid.cols + 1) * (grid.cols + 1) > Auto.n
            /\ IsCeil(grid.rows, Auto.n, grid.cols)
            /\ grid.rows >= grid.cols
        /\ (Auto.rows = 0 /\ Auto.cols # 0) =>
            grid.cols = Auto.cols /\ IsCeil(grid.rows, Auto.n, Auto.cols)
        /\ (Auto.rows # 0 /\ Auto.cols = 0) =>
            grid.rows = Auto.rows /\ IsCeil(grid.cols, Auto.n, Auto.rows)
        /\ (Auto.rows # 0 /\ Auto.cols # 0) =>
            grid.rows = Auto.rows /\ grid.cols = Auto.cols
        /\ (Auto.rows = 0 \/ Auto.cols = 0) => grid.rows * grid.cols >= Auto.n
        /\ (Auto.n = 5 /\ Auto.rows = 0 /\ Auto.cols = 0) =>
            /\ grid.cols = 2 /\ grid.rows = 3
            /\ DOMAIN cells = Positions(3, 2)
            /\ cells[<<2, 1>>].content = NoContent

C14_Witness ==
    /\ Call("autogrid") /\ Returned
    /\ Auto.n = 5 /\ Auto.rows = 0 /\ Auto.cols = 0
    /\ grid.rows = 3 /\ grid.cols = 2
    /\ cells[<<2, 0>>].content = Obj(4)
    /\ cells[<<2, 1>>].content = NoContent

\* the number of callbacks the grid has room for
Placed == IF Auto.n < grid.rows * grid.cols THEN Auto.n
          ELSE grid.rows * grid.cols

\* the call is one that add_to_cell and the title can serve: percentage
\* height, a title only with a percentage y, no raising callback placed
Servable ==
    /\ Auto.height.kind = "pct"
    /\ Auto.title = "None" \/ Auto.y.kind = "pct"
    /\ Auto.bad < 0 \/ Auto.bad >= Placed

\* C15: the callbacks are invoked in list order, each with no arguments;
\* every k-th callback with k < rows * cols is invoked exactly once and
\* its return value becomes the content of cell (k div cols, k mod cols);
\* callbacks with k >= rows * cols are never invoked and raise no error.
C15_RowMajorPlacement ==
    (Call("autogrid") /\ Auto.n >= 1) =>
        /\ \A i \in 1 .. Len(FuncCalls) :
            /\ FuncCalls[i].k = i - 1
            /\ FuncCalls[i].args = NoKwargs
            /\ FuncCalls[i].k < grid.rows * grid.cols
        /\ Servable => Returned
        /\ Returned =>
            /\ Len(FuncCalls) = Placed
            /\ \A rc \in DOMAIN cells :
                cells[rc].content =
                    (IF rc[1] * grid.cols + rc[2] < Placed
                     THEN Obj(rc[1] * grid.cols + rc[2]) ELSE NoContent)

C15_Witness ==
    /\ Call("autogrid") /\ Returned
    /\ Auto.n = 5 /\ Auto.rows = 2 /\ Auto.cols = 2 /\ Auto.bad = -1
    /\ Len(FuncCalls) = 4
    /\ cells[<<1, 0>>].content = Obj(2)
    /\ cells[<<1, 1>>].content = Obj(3)

\* the grid lies below a title band of height t drawn once, first of all,
\* at the original rectangle's x, y and width
TitleBand ==
    LET t == Auto.title_height.v
    IN  /\ grid.y = Pct(Auto.y.v + t)
        /\ grid.height = Pct(Auto.height.v - t)
        /\ grid.y.v + grid.height.v = Auto.y.v + Auto.height.v
        /\ Len(TitleCalls) = 1
        /\ last.calls # <<>>
        /\ last.calls[1] = [fn |-> "add_text", text |-> Auto.title,
                            x |-> Auto.x, y |-> Pct(Auto.y.v),
                            width |-> Auto.width,
                            height |-> Auto.title_height,
                            h_align |-> grid.h_align]

\* C16: autogrid with a title and percentage y, height and title_height t
\* makes a grid with y + t and height - t, and draws the title exactly
\* once at (x, original y, width, t) with the grid's h_align before any
\* content callback is invoked.
C16_TitleBandReserved ==
    (/\ Call("autogrid") /\ Auto.title # "None"
     /\ Auto.y.kind = "pct" /\ Auto.height.kind = "pct"
     /\ Auto.title_height.kind = "pct") => TitleBand

\* C17: autogrid with a title and a y or height that is not a percentage
\* string raises before the title is drawn and before any content callback
\* is invoked, and never makes a grid with a shifted y and an unreduced
\* height.
C17_NonPercentageFailsFast ==
    (/\ Call("autogrid") /\ Auto.title # "None"
     /\ Auto.y.kind # "pct" \/ Auto.height.kind # "pct") =>
        /\ ~Returned
        /\ last.calls = <<>>
        /\ ~(grid.y # Auto.y /\ grid.height = Auto.height)

\* the images drawn on the parent during the call
ImageCalls == SelectSeq(last.calls, LAMBDA e : e.fn = "add_image")

\* the cell autogrid assigns to figure k
CellOf(k) == <<k \div grid.cols, k % grid.cols>>

\* C25: autogrid_pyplot draws each placed figure with the x, y, width and
\* height of the grid cell assigned to it, so that figures in different
\* cells are drawn at different positions.
C25_FiguresDrawnInCells ==
    (Call("autogrid_pyplot") /\ Returned) =>
        /\ \A i \in DOMAIN ImageCalls :
            LET e   == ImageCalls[i]
                geo == AbsGeometry(grid, cells[CellOf(e.image)])
            IN  /\ e.x = geo.x /\ e.y = geo.y
                /\ e.width = geo.width /\ e.height = geo.height
        /\ \A i, j \in DOMAIN ImageCalls :
            i # j => <<ImageCalls[i].x, ImageCalls[i].y>>
                        # <<ImageCalls[j].x, ImageCalls[j].y>>

----------------------------------------------------------------------------
(* Properties of Slide._convert_position, stated for SpecConvert.        *)

\* the arguments of the conversion just made
Value      == last.args[1]
Reference  == last.args[2]
Horizontal == last.args[3]
HAlign     == last.args[4]

\* base = (p / 100) * (R / 914400), as a fraction in lowest terms
Base == FMul(Frac(Value.v, 10000), Frac(Reference, 914400))

\* slideWidth / slideHeight and 16 / 9
Ratio == Frac(slide.width, slide.height)
Standard == Frac(16, 9)

\* |ratio - 16/9| > 0.01
OffStandard ==
    100 * AbsInt(Ratio.num * Standard.den - Standard.num * Ratio.den)
        > Ratio.den * Standard.den

\* C18: a percentage p of a reference size R converts to
\* base = (p / 100) * (R / 914400) inches, except that for h_align
\* "center" on the horizontal axis of a slide whose ratio differs from 16/9
\* by more than 0.01 it converts to base * (1 + (ratio / (16/9) - 1) * 0.5);
\* "50%" of 9144000 on a 16:9 slide gives 5.
C18_PercentageConversion ==
    (Call("_convert_position") /\ Value.kind = "pct" /\ slide.height # 0) =>
        /\ Returned
        /\ IF HAlign = "center" /\ Horizontal /\ OffStandard
           THEN last.ret =
                    FMul(Base, FAdd(Frac(1, 1),
                        FMul(FSub(FDiv(Ratio, Standard), Frac(1, 1)),
                             Frac(1, 2))))
           ELSE last.ret = Base
        /\ (Value = Pct(5000) /\ Reference = 9144000 /\ ~OffStandard) =>
            last.ret = Frac(5, 1)

C18_Witness ==
    /\ Call("_convert_position") /\ Returned
    /\ slide = DefaultSlide
    /\ last.args = <<Pct(5000), 9144000, TRUE, "center">>
    /\ last.ret = Frac(35, 8)

\* C19: an absolute numeric value is returned unchanged, for every
\* reference size, either axis and every h_align, "center" on a slide that
\* is not 16:9 included.
C19_AbsoluteUnchanged ==
    (Call("_convert_position") /\ Value.kind = "abs") =>
        Returned /\ last.ret = Frac(Value.v, 100)

C19_Witness ==
    /\ Call("_convert_position") /\ Returned
    /\ slide = DefaultSlide
    /\ last.args = <<Abs(250), 9144000, TRUE, "center">>
    /\ last.ret = Frac(5, 2)

\* C20: with a slide height that is zero or negative, a percentage value
\* with h_align "center" on the horizontal axis converts without raising
\* to the uncorrected base (p / 100) * (R / 914400).
C20_BadHeightFallsBack ==
    (/\ Call("_convert_position") /\ Value.kind = "pct"
     /\ HAlign = "center" /\ Horizontal /\ slide.height <= 0) =>
        Returned /\ last.ret = Base

\* the text of a string argument that should be numeric: all of it, or the
\* part before a trailing "%"
NumberText ==
    IF EndsWithPercent(Value.text)
    THEN SubSeq(Value.text, 1, Len(Value.text) - 1)
    ELSE Value.text

\* C21: _convert_position fails with a parse error, and returns no number,
\* when the text before a trailing "%" is not numeric and when a value
\* without "%" is not numeric, for every h_align and axis.
C21_MalformedTextFails ==
    (/\ Call("_convert_position") /\ Value.kind = "str"
     /\ ~IsFloatText(NumberText)) => last.exc = "ValueError"

\* a percentage other than zero was converted for h_align "center" on the
\* horizontal axis of a slide whose ratio is more than 0.01 off 16/9
CenteredOffStandard ==
    /\ Call("_convert_position") /\ Returned
    /\ IsPercentage(Value) /\ Percent(Value).num # 0
    /\ HAlign = "center" /\ Horizontal
    /\ slide.height # 0 /\ OffStandard

\* the value the same conversion returns without h_align
WithoutHAlign ==
    ConvertPosition(slide, Value, Reference, Horizontal, "None").ret

\* C22 as stated: on a slide more than 0.01 off 16:9, a non-zero
\* percentage on the horizontal axis converts with h_align "center" to a
\* value different from the one without h_align.
C22_Original == CenteredOffStandard => last.ret # WithoutHAlign

\* C22, amended: the same for a non-zero percentage of a reference size
\* other than zero.
C22_CenterDiffers ==
    (CenteredOffStandard /\ Reference # 0) => last.ret # WithoutHAlign

C22_Witness ==
    /\ CenteredOffStandard
    /\ slide = DefaultSlide
    /\ Value = Str(<<"5", "0", "%">>) /\ Reference = 9144000
    /\ last.ret = Frac(35, 8)
    /\ WithoutHAlign = Frac(5, 1)

----------------------------------------------------------------------------
(* Properties of a newly constructed grid, stated for SpecNew.            *)

\* stored, in hundredths, is the two-decimal rounding of exact / parts
Rounds(stored, exact, parts) ==
    2 * (parts * stored - exact) <= parts /\ 2 * (exact - parts * stored) <= parts

\* C23: a new grid with rows r, cols c, padding p stores in cell
\* (row, col), as two-decimal percentages of the grid,
\* x = col * (100/c) + (100/c) * (p/100) / 2,
\* y = row * (100/r) + (100/r) * (p/100) / 2,
\* width = (100/c) * (1 - p/100), height = (100/r) * (1 - p/100), with
\* span 1x1, is_spanned false and no content; 2x2 with padding 10 gives
\* cell (0,0) x = 2.50% and width = 45.00%.
C23_NewCellGeometry ==
    Call("Grid") =>
        /\ DOMAIN cells = Positions(grid.rows, grid.cols)
        /\ \A rc \in DOMAIN cells :
            LET cell == cells[rc]
            IN  /\ cell.row = rc[1] /\ cell.col = rc[2]
                /\ Rounds(cell.x, rc[2] * 10000 + 50 * grid.padding, grid.cols)
                /\ Rounds(cell.y, rc[1] * 10000 + 50 * grid.padding, grid.rows)
                /\ Rounds(cell.width, 100 * (100 - grid.padding), grid.cols)
                /\ Rounds(cell.height, 100 * (100 - grid.padding), grid.rows)
                /\ cell.span_rows = 1 /\ cell.span_cols = 1
                /\ ~cell.is_spanned
                /\ cell.content = NoContent
        /\ (grid.rows = 2 /\ grid.cols = 2 /\ grid.padding = 10) =>
            cells[<<0, 0>>].x = 250 /\ cells[<<0, 0>>].width = 4500

C23_Witness ==
    /\ Call("Grid")
    /\ grid.rows = 2 /\ grid.cols = 2 /\ grid.padding = 10
    /\ cells[<<0, 0>>].x = 250 /\ cells[<<0, 0>>].width = 4500
    /\ cells[<<1, 1>>].x = 5250 /\ cells[<<1, 1>>].y = 5250

\* the sum of the widths stored in the cells of a row, in hundredths
RECURSIVE RowWidth(_, _)
RowWidth(row, ncols) ==
    IF ncols = 0 THEN 0
    ELSE RowWidth(row, ncols - 1) + cells[<<row, ncols - 1>>].width

\* C24 as stated: in a new grid the widths stored in the cells of any one
\* row sum to 100 * (1 - p/100).
C24_Original ==
    Call("Grid") =>
        \A row \in 0 .. grid.rows - 1 :
            RowWidth(row, grid.cols) = 100 * (100 - grid.padding)

\* C24, amended: the widths stored in the c cells of any one row sum to
\* 100 * (1 - p/100) up to the two-decimal rounding of each width, that is
\* to within c * 0.005, and exactly when (100/c) * (1 - p/100) has at most
\* two decimals.
C24_RowWidthSum ==
    Call("Grid") =>
        \A row \in 0 .. grid.rows - 1 :
            LET total == RowWidth(row, grid.cols)
                exact == 100 * (100 - grid.padding)
            IN  /\ 2 * (total - exact) <= grid.cols
                /\ 2 * (exact - total) <= grid.cols
                /\ exact % grid.cols = 0 => total = exact

C24_Witness ==
    /\ Call("Grid")
    /\ grid.rows = 2 /\ grid.cols = 3 /\ grid.padding = 5
    /\ RowWidth(1, 3) = 9501

----------------------------------------------------------------------------
(* Properties of the drawing operations of Slide, stated for SpecSlide.   *)

\* the default container of add_multiple_objects on the slide, in inches
Container ==
    [x |-> FMul(Frac(5, 100), Frac(slide.width, 914400)),
     y |-> FMul(Frac(5, 100), Frac(slide.height, 914400)),
     width  |-> FMul(Frac(90, 100), Frac(slide.width, 914400)),
     height |-> FMul(Frac(90, 100), Frac(slide.height, 914400))]

\* C26: add_multiple_objects returns a list with exactly one newly created
\* shape per entry of objects_data, in input order, no shape twice, entry
\* i placed at column i mod cols and row i div cols of the container.
C26_OneShapePerEntry ==
    Call("add_multiple_objects") =>
        LET types == last.args[1]
            dims  == LayoutDims(Len(types), last.args[2])
        IN  /\ Returned
            /\ Len(last.ret) = Len(types)
            /\ Len(last.calls) = Len(types)
            /\ \A i, j \in DOMAIN last.ret : i # j => last.ret[i] # last.ret[j]
            /\ \A i \in DOMAIN last.ret :
                /\ last.ret[i] = Obj(i)
                /\ last.calls[i].shape = i
                /\ last.calls[i].x =
                       ObjectGeometry(Container, dims, Frac(5, 100), i - 1).x
                /\ last.calls[i].y =
                       ObjectGeometry(Container, dims, Frac(5, 100), i - 1).y

\* C27: Table.from_dataframe with include_index=True on a DataFrame with
\* at least one row succeeds and adds a table in which every data row is
\* the row's index value followed by its column values, under a header row
\* of the same length.
C27_IndexedFrameTable ==
    (Call("from_dataframe") /\ last.args[2] /\ last.args[1].nrows >= 1) =>
        LET df == last.args[1]
        IN  /\ Returned
            /\ Len(last.ret) = df.nrows + 1
            /\ \A i \in 1 .. df.nrows :
                /\ Len(last.ret[i + 1]) = Len(last.ret[1])
                /\ last.ret[i + 1] =
                       <<CellText(IndexValue(i))>> \o
                       [j \in 1 .. df.ncols |-> CellText(FrameValue(i, j))]

\* the position resolver accepts the value as a percentage string
AcceptedPercentage(value) == IsPercentage(value) /\ ~ParseFails(value)

\* C28: every percentage string the position resolver accepts, fractional
\* ones and the two-decimal strings of a Grid included, is accepted by
\* add_image as x and by add_shape as width when h_align is not supplied:
\* the call does not fail, so that a callback given the rectangle of a
\* cell of a grid with h_align None can place a shape or an image.
C28_PercentagesAccepted ==
    /\ (/\ Call("add_image") /\ last.args[2] = "None"
        /\ AcceptedPercentage(last.args[1].x)) => Returned
    /\ (/\ Call("add_shape") /\ last.args[2] = "None"
        /\ AcceptedPercentage(last.args[1].width)) => Returned

----------------------------------------------------------------------------
(* The span structure of the cells, stated for Spec.                       *)

\* position rc lies in the span rectangle of the cell at o
InSpan(rc, o) ==
    /\ cells[o].row <= rc[1] /\ rc[1] < cells[o].row + cells[o].span_rows
    /\ cells[o].col <= rc[2] /\ rc[2] < cells[o].col + cells[o].span_cols

\* the non-spanned cells whose span rectangle holds rc
Origins(rc) == { o \in DOMAIN cells : ~cells[o].is_spanned /\ InSpan(rc, o) }

\* C29: after any sequence of successful merge_cells calls every position
\* lies in the span rectangle of exactly one non-spanned cell, and a cell
\* is is_spanned exactly when it is a member, other than the origin, of
\* such a rectangle.
C29_SpansPartitionGrid ==
    \A rc \in DOMAIN cells :
        /\ Cardinality(Origins(rc)) = 1
        /\ cells[rc].is_spanned <=> (Origins(rc) \ {rc} # {})

====
